---- MODULE Spec2Model ----
(***************************************************************************)
(* serve2d: the configurable front end of the serve2 protocol detecting    *)
(* server.  main() loads a JSON configuration, opens the listening socket, *)
(* builds one ProtocolHandler per configured protocol, registers it as a   *)
(* detector or as the default handler and enters the serve loop.           *)
(*                                                                         *)
(* A Go string is a sequence of symbols.  Strings whose inner structure    *)
(* plays no role (targets, host names, file names) are written with one    *)
(* symbol.  A byte slice is a sequence of symbols as well: []byte(s) holds *)
(* the symbols of s in the same order.                                     *)
(***************************************************************************)
EXTENDS Integers, Sequences, FiniteSets, TLC

VARIABLES
    pc,        \* position of main()
    conf,      \* the configuration document given on the command line
    confReady, \* var confReady
    logger,    \* var logger: TRUE when set to log.Printf, FALSE when nil
    out,       \* the messages written by log.Printf, in order
    listener,  \* TRUE once net.Listen has returned a listening socket
    server,    \* var server *serve2.Server
    i,         \* number of conf.Protocols entries the loop has processed
    files,     \* the file system: file name -> [ok, data]
    conn       \* the connection being dispatched

vars == <<pc, conf, confReady, logger, out, listener, server, i, files, conn>>

(***************************************************************************)
(* Bounds.                                                                 *)
(***************************************************************************)
MaxProtocols == 3

(***************************************************************************)
(* JSON values as encoding/json decodes them into interface{}:             *)
(* string, bool, float64, []interface{} and nil.                           *)
(***************************************************************************)
JStr(s)  == [t |-> "string", s |-> s,    b |-> FALSE, l |-> <<>>]
JBool(b) == [t |-> "bool",   s |-> <<>>, b |-> b,     l |-> <<>>]
JNum     == [t |-> "number", s |-> <<>>, b |-> FALSE, l |-> <<>>]
JNull    == [t |-> "null",   s |-> <<>>, b |-> FALSE, l |-> <<>>]
JList(l) == [t |-> "list",   s |-> <<>>, b |-> FALSE, l |-> l]

\* v.Conf[k] of a key that is absent is the nil interface
Lookup(c, k) == IF k \in DOMAIN c THEN c[k] ELSE JNull
\* _, ok := v.Conf[k]
Has(c, k) == k \in DOMAIN c
\* _, ok := x.(string), x.([]interface{}), x.(bool)
IsString(x) == x.t = "string"
IsList(x)   == x.t = "list"
IsBool(x)   == x.t = "bool"

\* the strings of a list whose elements are all strings, in order
Strings(l) == [k \in 1..Len(l) |-> l[k].s]
AllStrings(l) == \A k \in 1..Len(l) : IsString(l[k])

(***************************************************************************)
(* Handlers.  Every handler is a record of the same shape; id is the       *)
(* identity of the object (the position of the entry it was built for).    *)
(***************************************************************************)
Blank ==
    [id |-> 0, kind |-> "nil", magics |-> <<>>, target |-> <<>>,
     dial |-> "none", Checks |-> {}, ServerNames |-> <<>>,
     NegotiatedProtocols |-> <<>>, NegotiatedProtocolIsMutual |-> FALSE,
     protos |-> <<>>, cert |-> <<>>, key |-> <<>>,
     path |-> <<>>, defaultFile |-> <<>>, notFoundMsg |-> <<>>]

\* the nil ProtocolHandler
NilHandler == Blank

\* the outcome of building one handler: a handler, or a panic with the
\* logit calls made before it
Built(h)         == [ok |-> TRUE,  handler |-> h,          logs |-> <<>>, msg |-> "" ]
Panic(m)         == [ok |-> FALSE, handler |-> NilHandler, logs |-> <<>>, msg |-> m]
LogPanic(lg, m)  == [ok |-> FALSE, handler |-> NilHandler, logs |-> <<lg>>, msg |-> m]

(***************************************************************************)
(* The file system as ioutil.ReadFile sees it.                             *)
(***************************************************************************)
ReadFile(fs, name) ==
    IF name \in DOMAIN fs THEN fs[name] ELSE [ok |-> FALSE, data |-> <<>>]

(***************************************************************************)
(* The body of the loop over conf.Protocols: one handler per kind.         *)
(***************************************************************************)

\* BuildProxy with the patterns of a list stored last to first
BuildProxy_Reversed(v, id) ==
    LET m      == Lookup(v.Conf, "magic")
        target == Lookup(v.Conf, "target")
    IN  IF ~IsString(m) /\ ~IsList(m)
        THEN Panic("Proxy declaration is missing valid magic")
        ELSE IF ~IsString(target)
        THEN Panic("Proxy declaration is missing valid target")
        ELSE IF IsString(m)
        THEN Built([Blank EXCEPT !.id = id, !.kind = "proxy",
                                 !.magics = <<m.s>>, !.target = target.s])
        ELSE IF ~AllStrings(m.l)
        THEN Panic("magic declaration invalid")
        ELSE Built([Blank EXCEPT !.id = id, !.kind = "multiproxy",
                        !.magics = [k \in 1..Len(m.l) |-> m.l[Len(m.l) + 1 - k].s],
                        !.target = target.s])

\* case "proxy"
BuildProxy(v, id) ==
    LET m      == Lookup(v.Conf, "magic")
        mok    == IsString(m)
        sok    == IsList(m)
        target == Lookup(v.Conf, "target")
    IN  IF ~mok /\ ~sok
        THEN Panic("Proxy declaration is missing valid magic")
        ELSE IF ~IsString(target)
        THEN Panic("Proxy declaration is missing valid target")
        ELSE IF mok
        THEN Built([Blank EXCEPT !.id = id, !.kind = "proxy",
                                 !.magics = <<m.s>>, !.target = target.s])
        ELSE IF ~AllStrings(m.l)
        THEN Panic("magic declaration invalid")
        ELSE Built([Blank EXCEPT !.id = id, !.kind = "multiproxy",
                                 !.magics = Strings(m.l), !.target = target.s])

\* case "tls"; proto.NewTLS loads the certificate and the key
BuildTLS(v, id, fs) ==
    LET cert == Lookup(v.Conf, "cert")
        key  == Lookup(v.Conf, "key")
        y    == Lookup(v.Conf, "protos")
    IN  IF ~IsString(cert)
        THEN Panic("TLS declaration is missing valid certificate")
        ELSE IF ~IsString(key)
        THEN Panic("TLS declaration is missing valid key")
        ELSE IF ~IsList(y)
        THEN Panic("TLS protos declaration invalid")
        ELSE IF ~AllStrings(y.l)
        THEN Panic("TLS protos declaration invalid")
        ELSE IF ~ReadFile(fs, cert.s).ok \/ ~ReadFile(fs, key.s).ok
        THEN LogPanic("TLS configuration failed", "NewTLS error")
        ELSE Built([Blank EXCEPT !.id = id, !.kind = "tls",
                                 !.protos = Strings(y.l),
                                 !.cert = cert.s, !.key = key.s])

\* case "tlsmatcher" with the test of dialTLS inverted
BuildTLSMatcher_DialInverted(v, id) ==
    LET target  == Lookup(v.Conf, "target")
        dialTLS == Lookup(v.Conf, "dialTLS")
        sn      == Lookup(v.Conf, "serverNames")
        np      == Lookup(v.Conf, "negotiatedProtocols")
        npm     == Lookup(v.Conf, "negotiatedProtocolIsMutual")
        checks  == (IF IsList(sn) THEN {"ServerName"} ELSE {})
                   \cup (IF IsList(np) THEN {"NegotiatedProtocol"} ELSE {})
                   \cup (IF IsBool(npm) THEN {"NegotiatedProtocolIsMutual"} ELSE {})
    IN  IF ~IsString(target)
        THEN Panic("TLSMatcher declaration is missing valid target")
        ELSE IF IsList(sn) /\ ~AllStrings(sn.l)
        THEN Panic("TLSMatcher serverNames declaration invalid")
        ELSE IF IsList(np) /\ ~AllStrings(np.l)
        THEN Panic("TLSMatcher negotiatedProtocols declaration invalid")
        ELSE Built([Blank EXCEPT
                !.id = id, !.kind = "tlsmatcher", !.target = target.s,
                !.dial = IF ~IsBool(dialTLS) \/ dialTLS.b
                         THEN "passthrough" ELSE "tls",
                !.Checks = checks,
                !.ServerNames = IF IsList(sn) THEN Strings(sn.l) ELSE <<>>,
                !.NegotiatedProtocols = IF IsList(np) THEN Strings(np.l) ELSE <<>>,
                !.NegotiatedProtocolIsMutual = IF IsBool(npm) THEN npm.b ELSE FALSE])

\* case "tlsmatcher"
BuildTLSMatcher(v, id) ==
    LET target  == Lookup(v.Conf, "target")
        dialTLS == Lookup(v.Conf, "dialTLS")
        sn      == Lookup(v.Conf, "serverNames")
        np      == Lookup(v.Conf, "negotiatedProtocols")
        npm     == Lookup(v.Conf, "negotiatedProtocolIsMutual")
        checks  == (IF IsList(sn) THEN {"ServerName"} ELSE {})
                   \cup (IF IsList(np) THEN {"NegotiatedProtocol"} ELSE {})
                   \cup (IF IsBool(npm) THEN {"NegotiatedProtocolIsMutual"} ELSE {})
    IN  IF ~IsString(target)
        THEN Panic("TLSMatcher declaration is missing valid target")
        ELSE IF IsList(sn) /\ ~AllStrings(sn.l)
        THEN Panic("TLSMatcher serverNames declaration invalid")
        ELSE IF IsList(np) /\ ~AllStrings(np.l)
        THEN Panic("TLSMatcher negotiatedProtocols declaration invalid")
        ELSE Built([Blank EXCEPT
                !.id = id, !.kind = "tlsmatcher", !.target = target.s,
                !.dial = IF ~IsBool(dialTLS) \/ ~dialTLS.b
                         THEN "passthrough" ELSE "tls",
                !.Checks = checks,
                !.ServerNames = IF IsList(sn) THEN Strings(sn.l) ELSE <<>>,
                !.NegotiatedProtocols = IF IsList(np) THEN Strings(np.l) ELSE <<>>,
                !.NegotiatedProtocolIsMutual = IF IsBool(npm) THEN npm.b ELSE FALSE])

\* the built-in 404 body
DefaultNotFound == <<"<!DOCTYPE html><html><body><h1>404</h1></body></html>">>
\* the built-in default file
DefaultIndex == <<"index.html">>

\* BuildHTTP without the test for both notFoundMsg and notFoundFile
BuildHTTP_BothAllowed(v, id, fs) ==
    LET msgOk    == Has(v.Conf, "notFoundMsg")
        fileOk   == Has(v.Conf, "notFoundFile")
        msg      == Lookup(v.Conf, "notFoundMsg")
        filename == Lookup(v.Conf, "notFoundFile")
        x        == ReadFile(fs, filename.s)
        c        == Lookup(v.Conf, "defaultFile")
        path     == Lookup(v.Conf, "path")
        notFound == IF ~msgOk /\ ~fileOk THEN DefaultNotFound
                    ELSE IF msgOk THEN msg.s ELSE x.data
    IN  IF msgOk /\ ~IsString(msg)
        THEN Panic("HTTP notFoundMsg declaration invalid")
        ELSE IF ~msgOk /\ fileOk /\ ~IsString(filename)
        THEN Panic("HTTP notFoundFile declaration invalid")
        ELSE IF ~msgOk /\ fileOk /\ ~x.ok
        THEN LogPanic("HTTP unable to open notFoundFile", "ReadFile error")
        ELSE IF Has(v.Conf, "defaultFile") /\ ~IsString(c)
        THEN Panic("HTTP defaultFile declaration invalid")
        ELSE IF ~IsString(path)
        THEN Panic("HTTP path declaration invalid")
        ELSE Built([Blank EXCEPT
                !.id = id, !.kind = "http", !.path = path.s,
                !.defaultFile = IF Has(v.Conf, "defaultFile") THEN c.s
                                ELSE DefaultIndex,
                !.notFoundMsg = notFound])

\* case "http"
BuildHTTP(v, id, fs) ==
    LET msgOk    == Has(v.Conf, "notFoundMsg")
        fileOk   == Has(v.Conf, "notFoundFile")
        msg      == Lookup(v.Conf, "notFoundMsg")
        filename == Lookup(v.Conf, "notFoundFile")
        x        == ReadFile(fs, filename.s)
        c        == Lookup(v.Conf, "defaultFile")
        path     == Lookup(v.Conf, "path")
        notFound == IF ~msgOk /\ ~fileOk THEN DefaultNotFound
                    ELSE IF msgOk THEN msg.s ELSE x.data
    IN  IF fileOk /\ msgOk
        THEN Panic("HTTP notFoundMsg and notFoundFile declared simultaneously")
        ELSE IF msgOk /\ ~IsString(msg)
        THEN Panic("HTTP notFoundMsg declaration invalid")
        ELSE IF fileOk /\ ~IsString(filename)
        THEN Panic("HTTP notFoundFile declaration invalid")
        ELSE IF fileOk /\ ~x.ok
        THEN LogPanic("HTTP unable to open notFoundFile", "ReadFile error")
        ELSE IF Has(v.Conf, "defaultFile") /\ ~IsString(c)
        THEN Panic("HTTP defaultFile declaration invalid")
        ELSE IF ~IsString(path)
        THEN Panic("HTTP path declaration invalid")
        ELSE Built([Blank EXCEPT
                !.id = id, !.kind = "http", !.path = path.s,
                !.defaultFile = IF Has(v.Conf, "defaultFile") THEN c.s
                                ELSE DefaultIndex,
                !.notFoundMsg = notFound])

\* switch v.Kind
BuildHandler(v, id, fs) ==
    CASE v.Kind = "proxy"      -> BuildProxy(v, id)
      [] v.Kind = "tls"        -> BuildTLS(v, id, fs)
      [] v.Kind = "tlsmatcher" -> BuildTLSMatcher(v, id)
      [] v.Kind = "http"       -> BuildHTTP(v, id, fs)
      [] v.Kind = "echo"       -> Built([Blank EXCEPT !.id = id, !.kind = "echo"])
      [] v.Kind = "discard"    -> Built([Blank EXCEPT !.id = id, !.kind = "discard"])
      [] OTHER                 -> Panic("Unknown kind")

\* Register with the first declared default kept
Register_FirstDefaultWins(srv, v, handler) ==
    IF v.AsDefault
    THEN IF srv.DefaultProtocol = NilHandler
         THEN [srv EXCEPT !.DefaultProtocol = handler]
         ELSE srv
    ELSE [srv EXCEPT !.Protocols = Append(@, handler)]

\* Register with a new detector put in front of the earlier ones
Register_Prepend(srv, v, handler) ==
    IF v.AsDefault
    THEN [srv EXCEPT !.DefaultProtocol = handler]
    ELSE [srv EXCEPT !.Protocols = <<handler>> \o @]

\* if v.AsDefault { server.DefaultProtocol = handler } else { server.AddHandler(handler) }
Register(srv, v, handler) ==
    IF v.AsDefault
    THEN [srv EXCEPT !.DefaultProtocol = handler]
    ELSE [srv EXCEPT !.Protocols = Append(@, handler)]


(***************************************************************************)
(* Logging.                                                                *)
(***************************************************************************)
Msg(f, a) == [fmt |-> f, arg |-> a]

\* logit: log.Printf runs only when a logger is set or the configuration
\* has not been loaded yet
logit(o, lg, ready, m) == IF lg \/ ~ready THEN Append(o, m) ELSE o

RECURSIVE logitAll(_, _, _, _)
logitAll(o, lg, ready, ms) ==
    IF ms = <<>> THEN o
    ELSE logitAll(logit(o, lg, ready, Head(ms)), lg, ready, Tail(ms))

\* panic(m) after the logit calls ms: main's deferred function recovers,
\* calls logit("Panicked: %s", err) and main returns
Recovered(o, lg, ready, ms, m) ==
    logit(logitAll(o, lg, ready, ms), lg, ready, Msg("Panicked: %s", m))

(***************************************************************************)
(* main()                                                                  *)
(***************************************************************************)
\* serve2.New(); the README documents the default buffer size
DefaultBytesToCheck == 128

New == [BytesToCheck |-> DefaultBytesToCheck, Protocols |-> <<>>,
        DefaultProtocol |-> NilHandler, Logger |-> FALSE]


\* os.Args, ioutil.ReadFile(path), json.Unmarshal(bytes, &conf)
LoadConfig ==
    /\ pc = "start"
    /\ UNCHANGED <<conf, logger, listener, i, files, conn>>
    /\ IF conf.status = "ok"
       THEN /\ confReady' = TRUE
            /\ server' = New
            /\ pc' = "logging"
            /\ out' = out
       ELSE /\ pc' = "exit"
            /\ UNCHANGED <<confReady, server>>
            /\ out' =
                CASE conf.status = "noargs" ->
                       Recovered(out, logger, confReady, <<>>,
                                 "Missing configuration path")
                  [] conf.status = "unreadable" ->
                       Recovered(out, logger, confReady,
                                 <<Msg("Reading configuration failed", "")>>,
                                 "ReadFile error")
                  [] OTHER ->
                       Recovered(out, logger, confReady,
                                 <<Msg("Parsing configuration failed", "")>>,
                                 "Unmarshal error")

\* the logging destination and server.BytesToCheck
SetupLogging ==
    /\ pc = "logging"
    /\ UNCHANGED <<conf, confReady, listener, i, files, conn>>
    /\ \E openOk \in BOOLEAN :
        IF conf.LogStdout /\ conf.LogFile # <<>>
        THEN /\ pc' = "exit"
             /\ out' = Recovered(out, logger, confReady, <<>>,
                           "Unable to both log to stdout and to logfile")
             /\ UNCHANGED <<logger, server>>
        ELSE IF conf.LogFile # <<>> /\ ~openOk
        THEN /\ pc' = "exit"
             /\ out' = Recovered(out, logger, confReady,
                           <<Msg("Failed to open logfile: %s", "")>>,
                           "OpenFile error")
             /\ UNCHANGED <<logger, server>>
        ELSE LET on == conf.LogStdout \/ conf.LogFile # <<>>
                 n  == IF conf.MaxRead # 0 THEN conf.MaxRead
                       ELSE server.BytesToCheck
             IN  /\ logger' = on
                 /\ server' = [server EXCEPT !.Logger = on, !.BytesToCheck = n]
                 /\ out' = logit(out, on, confReady,
                                 Msg("Maximum buffer size: %d", ""))
                 /\ pc' = "listen"

\* l, err := net.Listen("tcp", conf.Address)
Listen ==
    /\ pc = "listen"
    /\ UNCHANGED <<conf, confReady, logger, server, i, files, conn>>
    /\ \E listenOk \in BOOLEAN :
        IF listenOk
        THEN /\ listener' = TRUE
             /\ out' = logit(out, logger, confReady, Msg("Listening on: %s", ""))
             /\ pc' = "build"
        ELSE /\ listener' = listener
             /\ out' = Recovered(out, logger, confReady,
                           <<Msg("Listen on [%s] failed", "")>>, "Listen error")
             /\ pc' = "exit"

\* one iteration of: for _, v := range conf.Protocols
BuildProtocol ==
    /\ pc = "build"
    /\ i < Len(conf.Protocols)
    /\ UNCHANGED <<conf, confReady, logger, listener, files, conn>>
    /\ LET v == conf.Protocols[i + 1]
           r == BuildHandler(v, i + 1, files)
       IN  IF r.ok
           THEN /\ server' = Register(server, v, r.handler)
                /\ i' = i + 1
                /\ UNCHANGED <<pc, out>>
           ELSE /\ pc' = "exit"
                /\ out' = Recovered(out, logger, confReady, r.logs, r.msg)
                /\ UNCHANGED <<server, i>>

\* after the loop: server.Serve(l)
Serve ==
    /\ pc = "build"
    /\ i = Len(conf.Protocols)
    /\ UNCHANGED <<conf, confReady, logger, listener, server, i, files, conn>>
    /\ out' = IF server.DefaultProtocol # NilHandler
              THEN logit(out, logger, confReady,
                         Msg("Default protocol set to: %v", ""))
              ELSE out
    /\ pc' = "serve"

(***************************************************************************)
(* The dispatcher (the serve2 library): one accepted connection is sniffed *)
(* and handed to the handler that claims it.                               *)
(***************************************************************************)
IsPrefix(p, s) == Len(p) <= Len(s) /\ \A k \in 1..Len(p) : s[k] = p[k]
Take(s, n) == SubSeq(s, 1, n)
Drop(s, n) == SubSeq(s, n + 1, Len(s))
Last(s)    == s[Len(s)]
Min(a, b)  == IF a < b THEN a ELSE b
InSeq(x, s) == \E k \in 1..Len(s) : s[k] = x

\* the first bytes of a TLS handshake record: type 0x16, version 3.1
TLSHello == <<"0x16", "0x03", "0x01">>
EchoMagic == <<"E", "C", "H", "O">>
DiscardMagic == <<"D", "I", "S", "C", "A", "R", "D">>

NoDial == [net |-> "none", target |-> <<>>, ServerName |-> <<>>,
           NextProtos |-> <<>>, InsecureSkipVerify |-> FALSE]

NoConn ==
    [state |-> "none", client |-> [tls |-> <<>>, stream |-> <<>>],
     depth |-> 0, header |-> <<>>, rest |-> <<>>, hints |-> <<>>,
     k |-> 0, tried |-> <<>>, owner |-> NilHandler, viaDefault |-> FALSE,
     pattern |-> 0,
     consumed |-> <<>>, pending |-> <<>>, dial |-> NoDial, backend |-> <<>>,
     method |-> "", urlPath |-> <<>>, read |-> FALSE, file |-> <<>>,
     status |-> 0,
     body |-> <<>>]

\* the bytes a client puts on the wire below `depth` terminated TLS layers
Wire(client, depth) ==
    IF depth < Len(client.tls) THEN TLSHello ELSE client.stream

\* the index of the first pattern that is a prefix of the header, 0 if none
FirstMatch(magics, header) ==
    IF \E k \in 1..Len(magics) : IsPrefix(magics[k], header)
    THEN CHOOSE k \in 1..Len(magics) :
            /\ IsPrefix(magics[k], header)
            /\ \A j \in 1..(k - 1) : ~IsPrefix(magics[j], header)
    ELSE 0

\* the checks of a TLSMatcher against the last hint of the connection
TLSMatcherCheck(h, hints) ==
    /\ hints # <<>>
    /\ Last(hints).tls
    /\ ("ServerName" \in h.Checks
            => InSeq(Last(hints).ServerName, h.ServerNames))
    /\ ("NegotiatedProtocol" \in h.Checks
            => InSeq(Last(hints).NegotiatedProtocol, h.NegotiatedProtocols))
    /\ ("NegotiatedProtocolIsMutual" \in h.Checks
            => Last(hints).NegotiatedProtocolIsMutual = h.NegotiatedProtocolIsMutual)

\* the match predicate of a handler
Match(h, header, hints) ==
    CASE h.kind \in {"proxy", "multiproxy"} -> FirstMatch(h.magics, header) # 0
      [] h.kind = "tls"        -> IsPrefix(TLSHello, header)
      [] h.kind = "tlsmatcher" -> TLSMatcherCheck(h, hints)
      [] h.kind = "echo"       -> IsPrefix(EchoMagic, header)
      [] h.kind = "discard"    -> IsPrefix(DiscardMagic, header)
      [] OTHER                 -> FALSE

CanRead(c, srv) == c.rest # <<>> /\ Len(c.header) < srv.BytesToCheck

\* a new detection round on a (possibly unwrapped) connection
Detect(c, client, depth, hints) ==
    [c EXCEPT !.state = "detect", !.client = client, !.depth = depth,
              !.header = <<>>, !.rest = Wire(client, depth), !.hints = hints,
              !.k = 1, !.tried = <<>>, !.owner = NilHandler]

\* Own without the replay of the sniffed bytes
Own_NoReplay(c, h, byDefault) ==
    [c EXCEPT !.state = "owned", !.owner = h, !.viaDefault = byDefault,
              !.pattern = IF byDefault THEN 0 ELSE FirstMatch(h.magics, c.header),
              !.consumed = c.header, !.pending = <<>>]

\* the handler h takes the connection; the sniffed bytes are replayed to it;
\* pattern is the pattern of a (multi-)proxy that made the match
Own(c, h, byDefault) ==
    [c EXCEPT !.state = "owned", !.owner = h, !.viaDefault = byDefault,
              !.pattern = IF byDefault THEN 0 ELSE FirstMatch(h.magics, c.header),
              !.consumed = c.header, !.pending = c.header]

\* the match loop evaluates the next registered detector
CheckStep(c, srv) ==
    LET h == srv.Protocols[c.k]
        t == [c EXCEPT !.tried = Append(@, h.id)]
    IN  IF Match(h, c.header, c.hints)
        THEN Own(t, h, FALSE)
        ELSE [t EXCEPT !.k = c.k + 1]

\* no detector matched and no more bytes will be sniffed
FallbackStep(c, srv) ==
    IF srv.DefaultProtocol # NilHandler
    THEN Own(c, srv.DefaultProtocol, TRUE)
    ELSE [c EXCEPT !.state = "closed"]

Accept(clients) ==
    /\ pc = "serve"
    /\ conn.state = "none"
    /\ \E client \in clients : conn' = Detect(NoConn, client, 0, <<>>)
    /\ UNCHANGED <<pc, conf, confReady, logger, out, listener, server, i, files>>

Read ==
    /\ conn.state = "detect"
    /\ conn.k > Len(server.Protocols)
    /\ CanRead(conn, server)
    /\ \E n \in 1..Min(Len(conn.rest), server.BytesToCheck - Len(conn.header)) :
          conn' = [conn EXCEPT !.header = @ \o Take(conn.rest, n),
                               !.rest = Drop(@, n),
                               !.k = 1, !.tried = <<>>]
    /\ UNCHANGED <<pc, conf, confReady, logger, out, listener, server, i, files>>

Check ==
    /\ conn.state = "detect"
    /\ conn.k \in 1..Len(server.Protocols)
    /\ conn' = CheckStep(conn, server)
    /\ UNCHANGED <<pc, conf, confReady, logger, out, listener, server, i, files>>

Fallback ==
    /\ conn.state = "detect"
    /\ conn.k > Len(server.Protocols)
    /\ ~CanRead(conn, server)
    /\ conn' = FallbackStep(conn, server)
    /\ UNCHANGED <<pc, conf, confReady, logger, out, listener, server, i, files>>

(***************************************************************************)
(* The handlers at work.                                                   *)
(***************************************************************************)
\* Proxy.Handle: dial the target, then copy
HandleProxy ==
    /\ conn.state = "owned"
    /\ conn.owner.kind \in {"proxy", "multiproxy"}
    /\ \E dialOk \in BOOLEAN :
          conn' = IF dialOk
                  THEN [conn EXCEPT !.state = "proxying",
                            !.dial = [NoDial EXCEPT !.net = "tcp",
                                          !.target = conn.owner.target]]
                  ELSE [conn EXCEPT !.state = "closed"]
    /\ UNCHANGED <<pc, conf, confReady, logger, out, listener, server, i, files>>

\* what the handler reads next: the replayed bytes first, then the socket
CopyStep(c, n) ==
    LET src == c.pending \o c.rest
        np  == Min(n, Len(c.pending))
    IN  [c EXCEPT !.backend = @ \o Take(src, n),
                  !.pending = Drop(@, np),
                  !.rest = Drop(@, n - np)]

Copy ==
    /\ conn.state = "proxying"
    /\ IF conn.pending \o conn.rest = <<>>
       THEN conn' = [conn EXCEPT !.state = "done"]
       ELSE \E n \in 1..(Len(conn.pending) + Len(conn.rest)) :
                conn' = CopyStep(conn, n)
    /\ UNCHANGED <<pc, conf, confReady, logger, out, listener, server, i, files>>

\* a hint: the connection state of a terminated TLS layer
TLSHint(p) ==
    [tls |-> TRUE, ServerName |-> p.ServerName,
     NegotiatedProtocol |-> p.NegotiatedProtocol,
     NegotiatedProtocolIsMutual |-> p.NegotiatedProtocolIsMutual]

\* TLS termination: the handshake, then detection again on the plaintext
HandleTLS ==
    /\ conn.state = "owned"
    /\ conn.owner.kind = "tls"
    /\ \E handshakeOk \in BOOLEAN :
          conn' = IF handshakeOk /\ conn.depth < Len(conn.client.tls)
                  THEN Detect(conn, conn.client, conn.depth + 1,
                              Append(conn.hints,
                                     TLSHint(conn.client.tls[conn.depth + 1])))
                  ELSE [conn EXCEPT !.state = "closed"]
    /\ UNCHANGED <<pc, conf, confReady, logger, out, listener, server, i, files>>

\* the callback main gives to proto.NewTLSMatcher: the backend connection
TLSMatcherDial(h, hints) ==
    IF h.dial = "passthrough"
    THEN [NoDial EXCEPT !.net = "tcp", !.target = h.target]
    ELSE LET useHint == Len(hints) > 0 /\ Last(hints).tls
         IN  [net |-> "tls", target |-> h.target,
              ServerName |-> IF useHint THEN Last(hints).ServerName ELSE <<>>,
              NextProtos |-> <<IF useHint THEN Last(hints).NegotiatedProtocol
                               ELSE <<>> >>,
              InsecureSkipVerify |-> TRUE]

\* TLSMatcher.Handle: run the callback, which dials and proxies
HandleTLSMatcher ==
    /\ conn.state = "owned"
    /\ conn.owner.kind = "tlsmatcher"
    /\ \E dialOk \in BOOLEAN :
          conn' = IF dialOk
                  THEN [conn EXCEPT !.state = "proxying",
                            !.dial = TLSMatcherDial(conn.owner, conn.hints)]
                  ELSE [conn EXCEPT !.state = "closed"]
    /\ UNCHANGED <<pc, conf, confReady, logger, out, listener, server, i, files>>

(***************************************************************************)
(* path.Clean and path.Join, on "/"-separated sequences of symbols.        *)
(***************************************************************************)
\* the elements between the slashes, the empty ones included
RECURSIVE Split(_)
Split(s) ==
    IF s = <<>> THEN << <<>> >>
    ELSE LET rest == Split(Tail(s))
         IN  IF Head(s) = "/" THEN << <<>> >> \o rest
             ELSE << <<Head(s)>> \o Head(rest) >> \o Tail(rest)

\* the elements that remain: no empty and no "." element, each inner ".."
\* removed with the element before it, a ".." at the start of a rooted path
\* removed
RECURSIVE CleanElems(_, _, _)
CleanElems(elems, kept, rooted) ==
    IF elems = <<>> THEN kept
    ELSE LET e == Head(elems)
             next ==
                IF e = <<>> \/ e = <<".">> THEN kept
                ELSE IF e = <<".", ".">>
                THEN IF kept # <<>> /\ Last(kept) # <<".", ".">>
                     THEN Take(kept, Len(kept) - 1)
                     ELSE IF rooted THEN kept ELSE Append(kept, e)
                ELSE Append(kept, e)
         IN  CleanElems(Tail(elems), next, rooted)

RECURSIVE JoinElems(_)
JoinElems(elems) ==
    IF elems = <<>> THEN <<>>
    ELSE IF Len(elems) = 1 THEN Head(elems)
    ELSE Head(elems) \o <<"/">> \o JoinElems(Tail(elems))

\* path.Clean
Clean(path) ==
    IF path = <<>> THEN <<".">>
    ELSE LET rooted == Head(path) = "/"
             kept   == CleanElems(Split(path), <<>>, rooted)
         IN  IF rooted THEN <<"/">> \o JoinElems(kept)
             ELSE IF kept = <<>> THEN <<".">>
             ELSE JoinElems(kept)

\* path.Join of two elements
Join(a, b) ==
    IF a = <<>> /\ b = <<>> THEN <<>>
    ELSE IF a = <<>> THEN Clean(b)
    ELSE IF b = <<>> THEN Clean(a)
    ELSE Clean(a \o <<"/">> \o b)

(***************************************************************************)
(* httpHandler.ServeHTTP                                                   *)
(***************************************************************************)
\* the path given to ioutil.ReadFile
ResolvePath(h, urlPath) ==
    LET p == <<".">> \o Clean(urlPath)
        q == IF p = <<".", "/">> THEN p \o h.defaultFile ELSE p
    IN  Join(h.path, q)

\* the response: the file read, the status, the body, the logit call
ServeHTTPResult(h, r, fs) ==
    IF r.Method = "OPTIONS"
    THEN [read |-> FALSE, file |-> <<>>, status |-> 200, body |-> <<>>,
          logs |-> <<>>]
    ELSE LET p == ResolvePath(h, r.Path)
             f == ReadFile(fs, p)
         IN  IF ~f.ok
             THEN [read |-> TRUE, file |-> p, status |-> 404,
                   body |-> h.notFoundMsg,
                   logs |-> <<Msg("http could not read file %s: %v", "")>>]
             ELSE [read |-> TRUE, file |-> p, status |-> 200, body |-> f.data,
                   logs |-> <<>>]

\* one request on a connection owned by the http handler
ServeHTTP(requests) ==
    /\ conn.state = "owned"
    /\ conn.owner.kind = "http"
    /\ \E r \in requests :
          LET res == ServeHTTPResult(conn.owner, r, files)
          IN  /\ conn' = [conn EXCEPT !.state = "done", !.method = r.Method,
                              !.urlPath = r.Path, !.read = res.read,
                              !.file = res.file, !.status = res.status,
                              !.body = res.body]
              /\ out' = logitAll(out, logger, confReady, res.logs)
    /\ UNCHANGED <<pc, conf, confReady, logger, listener, server, i, files>>

\* a file is edited while the server runs
FileChange(name, data) ==
    /\ pc = "serve"
    /\ name \in DOMAIN files
    /\ files[name].data # data
    /\ files' = [files EXCEPT ![name].data = data]
    /\ UNCHANGED <<pc, conf, confReady, logger, out, listener, server, i, conn>>

(***************************************************************************)
(* Configurations.                                                         *)
(***************************************************************************)
Entry(kind, def, c) == [Kind |-> kind, AsDefault |-> def, Conf |-> c]

Config(stdout, logfile, maxread, protocols) ==
    [status |-> "ok", LogStdout |-> stdout, LogFile |-> logfile,
     MaxRead |-> maxread, Protocols |-> protocols]

Client(tls, stream) == [tls |-> tls, stream |-> stream]

Target1 == <<"localhost:22">>
Target2 == <<"localhost:80">>

SeqsUpTo(S, n) == UNION {[1..m -> S] : m \in 0..n}

NoFiles == <<>>

StartState(confs, fss) ==
    /\ pc = "start"
    /\ conf \in confs
    /\ confReady = FALSE
    /\ logger = FALSE
    /\ out = <<>>
    /\ listener = FALSE
    /\ server = New
    /\ i = 0
    /\ files \in fss
    /\ conn = NoConn

Startup == LoadConfig \/ SetupLogging \/ Listen \/ BuildProtocol \/ Serve

(***************************************************************************)
(* Spec: lists of proxy entries and entries of an unknown kind, each       *)
(* flagged default or not, and clients that send a few bytes.              *)
(***************************************************************************)
MainEntries ==
    UNION {{Entry("proxy", d, [magic |-> JStr(<<"S">>), target |-> JStr(Target1)]),
            Entry("proxy", d, [magic |-> JStr(<<"S", "H">>), target |-> JStr(Target2)]),
            Entry("bogus", d, <<>>)} : d \in BOOLEAN}

MainConfs ==
    {Config(so, lf, mr, ps) :
        so \in BOOLEAN, lf \in {<<>>, <<"serve2d.log">>}, mr \in {0, 1},
        ps \in SeqsUpTo(MainEntries, MaxProtocols)}
    \cup {[Config(FALSE, <<>>, 0, <<>>) EXCEPT !.status = st] :
            st \in {"noargs", "unreadable", "unparsable"}}

MainClients ==
    {Client(<<>>, st) : st \in {<<>>, <<"S">>, <<"S", "H">>, <<"S", "H", "x">>, <<"x">>}}

Init == StartState(MainConfs, {NoFiles})

Next == Startup \/ Accept(MainClients) \/ Read \/ Check \/ Fallback
            \/ HandleProxy \/ Copy

Spec == Init /\ [][Next]_vars

(***************************************************************************)
(* Properties of main(): listening, the default handler, the detectors.    *)
(***************************************************************************)
KnownKinds == {"proxy", "tls", "tlsmatcher", "http", "echo", "discard"}

HasUnknownKind(ps) == \E k \in 1..Len(ps) : ps[k].Kind \notin KnownKinds

\* the positions of the processed entries flagged default
Defaults == {k \in 1..i : conf.Protocols[k].AsDefault}

MaxOf(S) == CHOOSE k \in S : \A j \in S : j <= k

\* the positions among the first n entries not flagged default, in order
RECURSIVE DetectorIds(_, _)
DetectorIds(ps, n) ==
    IF n = 0 THEN <<>>
    ELSE IF ps[n].AsDefault THEN DetectorIds(ps, n - 1)
    ELSE Append(DetectorIds(ps, n - 1), n)

HandlerOf(k) == BuildHandler(conf.Protocols[k], k, files).handler

\* the position in server.Protocols of the handler that owns the connection
OwnerIndex == CHOOSE j \in 1..Len(server.Protocols) : server.Protocols[j] = conn.owner

\* C1 (as claimed): a configuration with an entry of an unrecognized kind
\* never reaches the serve loop and never has the listening socket opened.
C1_UnknownKindNeverListens ==
    HasUnknownKind(conf.Protocols) => (~listener /\ pc # "serve")

\* C2: after any number of processed entries the default handler is the
\* handler built from the last processed entry flagged default, nil if there
\* is none, and no entry flagged default is a registered detector.
C2_LastDefaultWins ==
    /\ (Defaults = {} => server.DefaultProtocol = NilHandler)
    /\ (Defaults # {} => server.DefaultProtocol = HandlerOf(MaxOf(Defaults)))
    /\ \A k \in Defaults : \A j \in 1..Len(server.Protocols) :
            server.Protocols[j].id # k

C2_Witness ==
    /\ pc = "serve"
    /\ i = 3
    /\ Defaults = {1, 3}
    /\ HandlerOf(1) # [HandlerOf(3) EXCEPT !.id = 1]

\* C3: the registered detectors are the handlers of the processed entries
\* not flagged default, in configuration order; a connection is offered to
\* them in that order, the first one that matches owns it and none after it
\* is evaluated, and the default handler owns it only if no detector matches.
C3_DetectorsInOrder ==
    /\ Len(server.Protocols) = Len(DetectorIds(conf.Protocols, i))
    /\ \A j \in 1..Len(server.Protocols) :
            server.Protocols[j] = HandlerOf(DetectorIds(conf.Protocols, i)[j])
    /\ conn.state = "detect" =>
            /\ Len(conn.tried) = conn.k - 1
            /\ \A j \in 1..Len(conn.tried) :
                    /\ conn.tried[j] = DetectorIds(conf.Protocols, i)[j]
                    /\ ~Match(server.Protocols[j], conn.header, conn.hints)
    /\ (conn.state = "owned" /\ ~conn.viaDefault) =>
            /\ \E j \in 1..Len(server.Protocols) : server.Protocols[j] = conn.owner
            /\ Match(conn.owner, conn.consumed, conn.hints)
            /\ \A j \in 1..(OwnerIndex - 1) :
                    ~Match(server.Protocols[j], conn.consumed, conn.hints)
            /\ Len(conn.tried) = OwnerIndex
            /\ \A j \in 1..Len(conn.tried) :
                    conn.tried[j] = DetectorIds(conf.Protocols, i)[j]
    /\ (conn.state = "owned" /\ conn.viaDefault) =>
            /\ conn.owner = server.DefaultProtocol
            /\ \A j \in 1..Len(server.Protocols) :
                    ~Match(server.Protocols[j], conn.consumed, conn.hints)

\* the first of two detectors that both match owns the connection, after an
\* entry flagged default
C3_Witness ==
    /\ conn.state = "owned"
    /\ ~conn.viaDefault
    /\ conf.Protocols[1].AsDefault
    /\ Len(server.Protocols) = 2
    /\ conn.owner = server.Protocols[1]
    /\ Match(server.Protocols[2], conn.consumed, conn.hints)
    /\ conn.tried = <<2>>

\* the default handler owns a connection that two detectors refused
C3_WitnessDefault ==
    /\ conn.state = "owned"
    /\ conn.viaDefault
    /\ Len(server.Protocols) = 2
    /\ conn.header # <<>>

(***************************************************************************)
(* SpecProxy: one proxy entry, its magic and target of every shape.        *)
(***************************************************************************)
SS  == <<"S", "S">>
SSH == <<"S", "S", "H">>

MagicShapes ==
    {JStr(SS), JStr(<<>>), JNum, JBool(TRUE), JNull,
     JList(<<>>), JList(<<JStr(SS), JStr(SSH)>>), JList(<<JStr(SSH), JStr(SS)>>),
     JList(<<JStr(SSH), JStr(<<"X">>)>>), JList(<<JStr(SSH), JNum>>),
     JList(<<JStr(<<"X">>), JStr(SSH), JStr(SS)>>)}

ProxyConfs ==
    {[magic |-> m, target |-> t] : m \in MagicShapes, t \in {JStr(Target1), JNum}}
    \cup {[magic |-> m] : m \in MagicShapes}
    \cup {[target |-> JStr(Target1)], <<>>}

ProxyEntries == {Entry("proxy", d, c) : d \in BOOLEAN, c \in ProxyConfs}

SingleConfs(entries, reads) ==
    {Config(TRUE, <<>>, mr, <<e>>) : mr \in reads, e \in entries}

ProxyClients ==
    {Client(<<>>, st) : st \in {<<>>, <<"S">>, SS, SSH, SSH \o <<"f", "o">>,
                                <<"X">>, <<"X", "S", "S">>, <<"Y", "Z">>}}

InitProxy == StartState(SingleConfs(ProxyEntries, {0, 2}), {NoFiles})

NextProxy == Startup \/ Accept(ProxyClients) \/ Read \/ Check \/ Fallback
                \/ HandleProxy \/ Copy

SpecProxy == InitProxy /\ [][NextProxy]_vars

\* the magic of the single entry, when the entry is the registered detector
TheMagic == Lookup(conf.Protocols[1].Conf, "magic")

IsMultiEntry(v) ==
    /\ v.Kind = "proxy"
    /\ IsList(Lookup(v.Conf, "magic"))
    /\ AllStrings(Lookup(v.Conf, "magic").l)
    /\ IsString(Lookup(v.Conf, "target"))

\* the positions of the declared patterns that are a prefix of the bytes
PrefixPositions(l, bytes) == {k \in 1..Len(l) : IsPrefix(l[k].s, bytes)}

MinOf(S) == CHOOSE k \in S : \A j \in S : k <= j

\* C8: a processed proxy entry whose magic is a list of strings gives a
\* multi-pattern handler with the declared patterns in the declared order;
\* offered bytes that begin with one of the declared patterns it claims the
\* connection, and the pattern that makes the match is the earliest declared
\* one that is a prefix of the buffered bytes.
C8_MultiProxy ==
    (i = 1 /\ IsMultiEntry(conf.Protocols[1])) =>
        LET h == IF conf.Protocols[1].AsDefault THEN server.DefaultProtocol
                 ELSE server.Protocols[1]
        IN  /\ h.kind = "multiproxy"
            /\ Len(h.magics) = Len(TheMagic.l)
            /\ \A k \in 1..Len(TheMagic.l) : h.magics[k] = TheMagic.l[k].s
            /\ h.target = Lookup(conf.Protocols[1].Conf, "target").s
            /\ (conn.state = "detect" /\ conn.k > 1)
                    => PrefixPositions(TheMagic.l, conn.header) = {}
            /\ (conn.state = "owned" /\ ~conn.viaDefault)
                    => /\ PrefixPositions(TheMagic.l, conn.consumed) # {}
                       /\ conn.pattern = MinOf(PrefixPositions(TheMagic.l, conn.consumed))

\* two declared patterns are prefixes of the buffered bytes and the later
\* declared one is the shorter
C8_Witness ==
    /\ i = 1
    /\ IsMultiEntry(conf.Protocols[1])
    /\ conn.state = "owned"
    /\ ~conn.viaDefault
    /\ PrefixPositions(TheMagic.l, conn.consumed) = {1, 2}
    /\ conn.pattern = 1
    /\ Len(TheMagic.l[2].s) < Len(TheMagic.l[1].s)

\* C9: the bytes a proxy handler writes to the backend are the bytes sniffed
\* during detection followed by the bytes read from the client afterwards:
\* what is written is a prefix of what the client sent, the sniffed bytes
\* come first, nothing is lost when the copy ends.
C9_ReplayThenStream ==
    (conn.state \in {"proxying", "done"}
        /\ conn.owner.kind \in {"proxy", "multiproxy"}) =>
        /\ IsPrefix(conn.consumed, conn.client.stream)
        /\ IsPrefix(conn.backend, conn.client.stream)
        /\ conn.backend \o conn.pending \o conn.rest = conn.client.stream
        /\ (Len(conn.backend) >= Len(conn.consumed)
                => IsPrefix(conn.consumed, conn.backend))
        /\ (conn.state = "done" => conn.backend = conn.client.stream)

\* a copy that ended after sniffed bytes and later bytes were both written
C9_Witness ==
    /\ conn.state = "done"
    /\ conn.owner.kind = "proxy"
    /\ ~conn.viaDefault
    /\ conn.consumed = SS
    /\ conn.backend = SSH \o <<"f", "o">>

(***************************************************************************)
(* SpecTLS: a tls entry followed by one tlsmatcher entry whose options     *)
(* take every shape, and clients that speak TLS.                           *)
(***************************************************************************)
NameA == <<"a.example">>
NameB == <<"b.example">>
NameC == <<"c.example">>
H2     == <<"h2">>
HTTP11 == <<"http/1.1">>

\* the configurations of one optional key
Opt(k, vals) == {<<>>} \cup {[x \in {k} |-> v] : v \in vals}

ListShapes(a, b) ==
    {JList(<<JStr(a)>>), JList(<<JStr(a), JStr(b)>>), JList(<<>>),
     JList(<<JStr(a), JNum>>), JStr(a), JNum}

TLSMatcherConfs ==
    {t @@ d @@ sn @@ np @@ npm :
        t   \in Opt("target", {JStr(Target1)}),
        d   \in Opt("dialTLS", {JBool(TRUE)}),
        sn  \in Opt("serverNames", ListShapes(NameA, NameB)),
        np  \in Opt("negotiatedProtocols", ListShapes(H2, HTTP11)),
        npm \in Opt("negotiatedProtocolIsMutual",
                    {JBool(TRUE), JBool(FALSE), JStr(<<"true">>)})}

TLSMatcherEntries == {Entry("tlsmatcher", FALSE, c) : c \in TLSMatcherConfs}

CertFile == <<"cert.pem">>
KeyFile  == <<"key.pem">>

TLSEntry ==
    Entry("tls", FALSE, [cert |-> JStr(CertFile), key |-> JStr(KeyFile),
                         protos |-> JList(<<JStr(H2), JStr(HTTP11)>>)])

TLSFiles == [f \in {CertFile, KeyFile} |-> [ok |-> TRUE, data |-> <<"pem">>]]

TLSParams ==
    [ServerName : {NameA, NameB, NameC},
     NegotiatedProtocol : {H2, HTTP11, <<>>},
     NegotiatedProtocolIsMutual : BOOLEAN]

TLSClients ==
    {Client(<<p>>, <<"x">>) : p \in TLSParams} \cup {Client(<<>>, <<"x">>)}

TLSConfs == {Config(TRUE, <<>>, 0, <<TLSEntry, m>>) : m \in TLSMatcherEntries}

InitTLS == StartState(TLSConfs, {TLSFiles})

NextTLS == Startup \/ Accept(TLSClients) \/ Read \/ Check \/ Fallback
              \/ HandleTLS \/ HandleTLSMatcher \/ Copy

SpecTLS == InitTLS /\ [][NextTLS]_vars

\* the tlsmatcher entry of the configuration and its options
TheMatcher == conf.Protocols[2]
MatcherOpt(k) == Lookup(TheMatcher.Conf, k)

\* a field is supplied when the key is there with a value other than null
Supplied(k) == Has(TheMatcher.Conf, k) /\ MatcherOpt(k) # JNull

IsListOfStrings(x) == IsList(x) /\ AllStrings(x.l)

\* the value x lists the string s
Lists(x, s) == IsList(x) /\ \E k \in 1..Len(x.l) : IsString(x.l[k]) /\ x.l[k].s = s

\* the checks of the claim, on the supplied fields, against a TLS hint
SuppliedChecksPass(hint) ==
    /\ Supplied("serverNames")
            => Lists(MatcherOpt("serverNames"), hint.ServerName)
    /\ Supplied("negotiatedProtocols")
            => Lists(MatcherOpt("negotiatedProtocols"), hint.NegotiatedProtocol)
    /\ Supplied("negotiatedProtocolIsMutual")
            => /\ IsBool(MatcherOpt("negotiatedProtocolIsMutual"))
               /\ MatcherOpt("negotiatedProtocolIsMutual").b
                      = hint.NegotiatedProtocolIsMutual

\* the tlsmatcher has been offered the TLS-terminated connection
MatcherDecided ==
    /\ i = 2
    /\ conn.depth = 1
    /\ \/ conn.state = "detect" /\ conn.k > 2
       \/ conn.state = "owned"

MatcherClaimed == conn.state = "owned" /\ conn.owner = server.Protocols[2]

\* C4 (as claimed): a check is enabled iff its field was supplied, so the
\* tlsmatcher claims a TLS-terminated connection iff the check of every
\* supplied field passes.
C4_ClaimsIffSuppliedChecksPass ==
    MatcherDecided => (MatcherClaimed <=> SuppliedChecksPass(Last(conn.hints)))

\* C10 (as claimed): a tlsmatcher entry whose serverNames or
\* negotiatedProtocols is present and is not a list of strings is never
\* built into a handler.
C10_WrongShapeFails ==
    \A k \in {"serverNames", "negotiatedProtocols"} :
        (Has(TheMatcher.Conf, k) /\ ~IsListOfStrings(MatcherOpt(k))) => i < 2

(***************************************************************************)
(* SpecHTTP: one http entry whose options take every shape, and requests   *)
(* for every path of up to MaxPathLen symbols.                             *)
(***************************************************************************)
MaxPathLen == 4

PathSymbols == {"/", ".", "a"}

RequestPaths == SeqsUpTo(PathSymbols, MaxPathLen)

Requests == [Method : {"GET", "OPTIONS"}, Path : RequestPaths]

Root1 == <<"/", "r", "/", "s">>
Root2 == <<"/", "r", "/", "s", "/">>
Root3 == <<"s">>

NotFoundFile == <<"404.html">>
NotFoundPage == <<"custom 404">>
EditedPage   == <<"edited 404">>

HTTPConfs ==
    {m @@ f @@ d @@ p :
        m \in Opt("notFoundMsg", {JStr(<<"gone">>), JNum}),
        f \in Opt("notFoundFile", {JStr(NotFoundFile), JStr(<<"missing.html">>), JNum}),
        d \in Opt("defaultFile", {JStr(<<"d">>), JNum}),
        p \in Opt("path", {JStr(Root1), JStr(Root2), JStr(Root3), JNum})}

HTTPEntries == {Entry("http", d, c) : d \in BOOLEAN, c \in HTTPConfs}

HTTPFiles ==
    [f \in {NotFoundFile, Root1 \o <<"/">> \o DefaultIndex,
            Root1 \o <<"/", "a">>, <<"/", "r", "/", "a">>} |->
        [ok |-> TRUE, data |-> IF f = NotFoundFile THEN NotFoundPage ELSE f]]

HTTPClients == {Client(<<>>, <<"request">>)}

InitHTTP == StartState(SingleConfs(HTTPEntries, {0}), {HTTPFiles})

NextHTTP == Startup \/ Accept(HTTPClients) \/ Read \/ Check \/ Fallback
               \/ ServeHTTP(Requests) \/ FileChange(NotFoundFile, EditedPage)

SpecHTTP == InitHTTP /\ [][NextHTTP]_vars

\* a file was asked of the file system for a request
Served == conn.state = "done" /\ conn.owner.kind = "http" /\ conn.read

\* the path p is the directory root or lies below it
Within(p, root) ==
    LET r == Clean(root)
    IN  \/ p = r
        \/ IsPrefix(IF r = <<"/">> THEN r ELSE r \o <<"/">>, p)

\* C5 (as claimed): whatever the request path, the path given to the file
\* read lies under the configured root.
C5_ReadStaysUnderRoot == Served => Within(conn.file, conn.owner.path)

\* C6 (as claimed): for the empty request path and for "/" the file read is
\* the default file directly under the root.
C6_EmptyOrRootReadsDefault ==
    (Served /\ conn.urlPath \in {<<>>, <<"/">>}) =>
        conn.file = Clean(conn.owner.path) \o <<"/">> \o conn.owner.defaultFile

\* the http entry of the configuration and the handler built from it
TheHTTP == conf.Protocols[1]
HTTPOpt(k) == Lookup(TheHTTP.Conf, k)
HTTPHandler ==
    IF TheHTTP.AsDefault THEN server.DefaultProtocol ELSE server.Protocols[1]

\* C7: an http entry with both notFoundMsg and notFoundFile is never built
\* into a handler; a handler built with neither has the built-in 404 body,
\* one built with notFoundMsg alone has that string, one built with
\* notFoundFile alone has what the file held when the handler was built, and
\* that is the body of every 404 response, also after the file was edited.
C7_NotFoundBody ==
    /\ (Has(TheHTTP.Conf, "notFoundMsg") /\ Has(TheHTTP.Conf, "notFoundFile"))
            => (i = 0 /\ pc # "serve")
    /\ i = 1 =>
        /\ (~Has(TheHTTP.Conf, "notFoundMsg") /\ ~Has(TheHTTP.Conf, "notFoundFile"))
                => HTTPHandler.notFoundMsg = DefaultNotFound
        /\ (Has(TheHTTP.Conf, "notFoundMsg") /\ ~Has(TheHTTP.Conf, "notFoundFile"))
                => /\ IsString(HTTPOpt("notFoundMsg"))
                   /\ HTTPHandler.notFoundMsg = HTTPOpt("notFoundMsg").s
        /\ (~Has(TheHTTP.Conf, "notFoundMsg") /\ Has(TheHTTP.Conf, "notFoundFile"))
                => /\ IsString(HTTPOpt("notFoundFile"))
                   /\ HTTPOpt("notFoundFile").s \in DOMAIN HTTPFiles
                   /\ HTTPHandler.notFoundMsg = HTTPFiles[HTTPOpt("notFoundFile").s].data
        /\ (Served /\ conn.status = 404) => conn.body = HTTPHandler.notFoundMsg

\* a 404 response with the body read at construction, after the file changed
C7_Witness ==
    /\ Served
    /\ conn.status = 404
    /\ Has(TheHTTP.Conf, "notFoundFile")
    /\ files[NotFoundFile].data = EditedPage
    /\ conn.body = NotFoundPage

(***************************************************************************)
(* Fatal startup conditions.                                               *)
(***************************************************************************)
\* main has returned after a recovered panic
Exited == pc = "exit"

\* log.Printf has written the message of the panic
PanicReported == out # <<>> /\ Last(out).fmt = "Panicked: %s"

\* C13 (as claimed): every fatal startup condition ends main before the
\* serve loop with the message of the failure written, whatever the logging
\* destination of the configuration, none included.
C13_FatalStartupIsReported == Exited => PanicReported

(***************************************************************************)
(* SpecDial: the callback of a tlsmatcher on every hint chain.  The chain  *)
(* is what utils.GetHints returns for the connection given to the          *)
(* callback; its entries are transports of any type, TLS or not.           *)
(***************************************************************************)
MaxHints == 2

\* a hint that is not a *tls.Conn
PlainHint ==
    [tls |-> FALSE, ServerName |-> <<>>, NegotiatedProtocol |-> <<>>,
     NegotiatedProtocolIsMutual |-> FALSE]

DialParams ==
    [ServerName : {NameA, NameB},
     NegotiatedProtocol : {H2, HTTP11},
     NegotiatedProtocolIsMutual : {TRUE}]

Hints == {TLSHint(p) : p \in DialParams} \cup {PlainHint}

HintChains == SeqsUpTo(Hints, MaxHints)

DialConfs ==
    {Config(TRUE, <<>>, 0,
            <<TLSEntry, Entry("tlsmatcher", def, [target |-> JStr(Target1)] @@ d)>>) :
        def \in BOOLEAN,
        d \in Opt("dialTLS", {JBool(TRUE), JBool(FALSE)})}

\* the handlers a connection can be given to
Handlers(srv) ==
    {srv.Protocols[k] : k \in 1..Len(srv.Protocols)}
        \cup ({srv.DefaultProtocol} \ {NilHandler})

\* a tlsmatcher is given a connection that carries the hint chain `hints`
HandOver(chains) ==
    /\ pc = "serve"
    /\ conn.state = "none"
    /\ \E h \in Handlers(server), hints \in chains :
          /\ h.kind = "tlsmatcher"
          /\ conn' = Own([NoConn EXCEPT !.hints = hints], h,
                         h = server.DefaultProtocol)
    /\ UNCHANGED <<pc, conf, confReady, logger, out, listener, server, i, files>>

InitDial == StartState(DialConfs, {TLSFiles})

NextDial == Startup \/ HandOver(HintChains) \/ HandleTLSMatcher \/ Copy

SpecDial == InitDial /\ [][NextDial]_vars

HasTLSHint(hints) == \E k \in 1..Len(hints) : hints[k].tls

\* the most recent TLS entry of a chain that has one
MostRecentTLS(hints) ==
    hints[CHOOSE k \in 1..Len(hints) :
            hints[k].tls /\ \A j \in (k + 1)..Len(hints) : ~hints[j].tls]

\* a tlsmatcher with TLS re-origination has dialed for the connection
Reoriginated ==
    /\ conn.state = "proxying"
    /\ conn.owner.kind = "tlsmatcher"
    /\ conn.owner.dial = "tls"

MatcherConfs(target) ==
    {[target |-> JStr(target)] @@ d @@ sn :
        d  \in Opt("dialTLS", {JBool(TRUE), JBool(FALSE)}),
        sn \in Opt("serverNames", {JList(<<JStr(NameA)>>), JList(<<JStr(NameB)>>)})}

MatcherEntries(target) ==
    {Entry("tlsmatcher", def, c) : def \in BOOLEAN, c \in MatcherConfs(target)}

MatchersConfs ==
    {Config(TRUE, <<>>, 0, <<TLSEntry, m1, m2>>) :
        m1 \in MatcherEntries(Target1), m2 \in MatcherEntries(Target2)}

MatchersClients ==
    {Client(<<[ServerName |-> n, NegotiatedProtocol |-> H2,
               NegotiatedProtocolIsMutual |-> TRUE]>>, <<"x">>) :
        n \in {NameA, NameB}}
    \cup {Client(<<>>, <<"x">>)}

\* the connection is over and its state is dropped; the next one can come
Close ==
    /\ conn.state \in {"done", "closed"}
    /\ conn' = NoConn
    /\ UNCHANGED <<pc, conf, confReady, logger, out, listener, server, i, files>>

InitMatchers == StartState(MatchersConfs, {TLSFiles})

NextMatchers == Startup \/ Accept(MatchersClients) \/ Read \/ Check \/ Fallback
                   \/ HandleTLS \/ HandleTLSMatcher \/ Copy \/ Close

SpecMatchers == InitMatchers /\ [][NextMatchers]_vars

\* the configuration entry asks for TLS to the backend
RequestsTLS(v) ==
    Has(v.Conf, "dialTLS") /\ IsBool(v.Conf["dialTLS"]) /\ v.Conf["dialTLS"].b

\* the dial strategy and the target the entry asks for
StrategyOf(v) == IF RequestsTLS(v) THEN "tls" ELSE "passthrough"
TargetOf(v)   == v.Conf["target"].s

\* a tlsmatcher has dialed for the connection
MatcherDialed == conn.state = "proxying" /\ conn.owner.kind = "tlsmatcher"

\* C12: every built tlsmatcher has the dial strategy and the target of its own
\* configuration entry, and every connection a tlsmatcher handles is dialed
\* with them: in plaintext to that target when the entry does not ask for
\* TLS, with TLS and certificate verification disabled to that target when
\* dialTLS is true; never to the target of another entry.
C12_OwnDialStrategy ==
    /\ \A h \in Handlers(server) :
          h.kind = "tlsmatcher" =>
             /\ conf.Protocols[h.id].Kind = "tlsmatcher"
             /\ h.dial = StrategyOf(conf.Protocols[h.id])
             /\ h.target = TargetOf(conf.Protocols[h.id])
    /\ MatcherDialed =>
          LET v == conf.Protocols[conn.owner.id]
          IN  /\ conn.owner \in Handlers(server)
              /\ conn.dial.target = TargetOf(v)
              /\ \A k \in 1..Len(conf.Protocols) :
                    (k # conn.owner.id /\ conf.Protocols[k].Kind = "tlsmatcher"
                        /\ TargetOf(conf.Protocols[k]) # TargetOf(v))
                    => conn.dial.target # TargetOf(conf.Protocols[k])
              /\ IF RequestsTLS(v)
                 THEN conn.dial.net = "tls" /\ conn.dial.InsecureSkipVerify
                 ELSE conn.dial = [NoDial EXCEPT !.net = "tcp",
                                                 !.target = TargetOf(v)]

\* the second tlsmatcher re-originates TLS to its own target while the first
\* one is a passthrough to the other target
C12_Witness ==
    /\ MatcherDialed
    /\ conn.owner.id = 3
    /\ ~RequestsTLS(conf.Protocols[2])
    /\ conn.dial.net = "tls"
    /\ conn.dial.InsecureSkipVerify
    /\ conn.dial.target = Target2

\* the first tlsmatcher dials in plaintext to its own target while the
\* second one re-originates TLS
C12_WitnessPassthrough ==
    /\ MatcherDialed
    /\ conn.owner.id = 2
    /\ RequestsTLS(conf.Protocols[3])
    /\ conn.dial.net = "tcp"
    /\ conn.dial.target = Target1

====
